---- MODULE Spec2Model ----
(***************************************************************************)
(* Model of library/sharepoint.py: the Ansible module `sharepoint`.  One   *)
(* run of main() authenticates against the token endpoint and then runs    *)
(* exactly one of seven operations against the SharePoint REST API.        *)
(*                                                                         *)
(* A run blocks only inside requests.get / requests.post, so main() is cut *)
(* into actions at those points: an action is the code between two HTTP    *)
(* round trips.  module.exit_json, module.fail_json and an uncaught        *)
(* exception all end the process; the model records which in `outcome`.    *)
(* The local file system and the remote store outlive a run; everything    *)
(* else is a local variable of main() and is rebuilt by the next run.      *)
(*                                                                         *)
(* Environment: the SharePoint operation endpoints answer with a JSON body *)
(* that follows the OData conventions (spec.md section 6), so that         *)
(* response.json() and the fields read from it are defined.  The token     *)
(* endpoint may answer a 2xx body without the access_token field.          *)
(***************************************************************************)
EXTENDS Integers, Sequences, FiniteSets, TLC

\* ------------------------------------------------------------ input sets

\* Python's None, kept apart from every str value.
None == "<None>"

Methods == {"put", "get", "metadata", "delete", "list", "mkdir", "rmdir"}
FileNames == {"a.txt", "b.txt"}
LocalDirs == {"/tmp", "/nodir"}
\* The directories that exist on the local disk.
ExistingDirs == {"/tmp"}
Contents == {"x", "y"}
SiteName == "Ops"
TenantName == "mycompany"
TenantId == "F8A30A4A"
RemotePath == "Docs"

\* Longest files / folders array a list response carries.
MaxEntries == 2
EntryNames == {"n1", "n2"}

\* module.params as AnsibleModule hands them over (lines 192-243).
ParamSpace ==
    [method : Methods,
     local_file_path : LocalDirs,
     local_file_name : FileNames \cup {None},
     remote_file_path : {RemotePath},
     remote_file_name : FileNames \cup {None},
     site_name : {SiteName},
     tenant_name : {TenantName},
     tenant_id : {TenantId},
     resource : {None},
     grant_type : {"client_credentials"}]

\* ------------------------------------------------------------ pure helpers

\* str.format of one argument: None prints as the text None.
Fmt(x) == IF x = None THEN "None" ELSE x

\* str.format of a status code.
CodeStr(c) ==
    CASE c = 200 -> "200"
      [] c = 201 -> "201"
      [] c = 401 -> "401"
      [] c = 404 -> "404"

\* requests.Response.ok: no 4xx / 5xx status.
Ok(resp) == resp.status_code < 400

\* dict with key k set to v.
DictSet(d, k, v) == [x \in DOMAIN d \cup {k} |-> IF x = k THEN v ELSE d[x]]
\* dict without key k.
DictDel(d, k) == [x \in DOMAIN d \ {k} |-> d[x]]
EmptyDict == [x \in {} |-> ""]

\* os.path.join(dir, name) for a directory without a trailing separator and
\* a relative name.
PathJoin(dir, name) == dir \o "/" \o name

\* ------------------------------------------------------------ parameters

LocalFileNameBug(p) ==
    IF p.local_file_name = None THEN p.remote_file_name ELSE p.local_file_name

\* local_file_name after lines 248-250.
LocalFileName(p) ==
    IF p.local_file_name = None /\ p.method = "get"
    THEN p.remote_file_name
    ELSE p.local_file_name

\* remote_file_name after lines 252-254.
RemoteFileName(p) ==
    IF p.remote_file_name = None /\ p.method = "put"
    THEN p.local_file_name
    ELSE p.remote_file_name

\* resource after lines 260-265.
Resource(p) ==
    IF p.resource = None
    THEN "00000003-0000-0ff1-ce00-000000000000/" \o Fmt(p.tenant_name)
         \o ".sharepoint.com@" \o Fmt(p.tenant_id)
    ELSE p.resource

\* The local variables of main() after parameter extraction.
Extract(p) ==
    [method |-> p.method,
     local_file_path |-> p.local_file_path,
     local_file_name |-> LocalFileName(p),
     remote_file_path |-> p.remote_file_path,
     remote_file_name |-> RemoteFileName(p),
     tenant_id |-> p.tenant_id,
     tenant_name |-> p.tenant_name,
     site_name |-> p.site_name,
     resource |-> Resource(p),
     grant_type |-> p.grant_type]

\* Payload for token.
TokenPayload(v) ==
    [grant_type |-> v.grant_type,
     client_id |-> "client_id",
     client_secret |-> "client_secret",
     resource |-> v.resource]

UrlGetToken(v) ==
    "https://accounts.accesscontrol.windows.net/" \o Fmt(v.tenant_id)
    \o "/tokens/oAuth/2"

\* requests.get(url_get_token, data=payload)
TokenRequest(v) ==
    [endpoint |-> "token", verb |-> "GET", url |-> UrlGetToken(v),
     headers |-> EmptyDict, data |-> TokenPayload(v)]

\* ------------------------------------------------------------ endpoints

\* url = "https://{}.sharepoint.com/sites/{}".format(tenant_name, site_name)
SiteUrl(v) ==
    "https://" \o Fmt(v.tenant_name) \o ".sharepoint.com/sites/" \o Fmt(v.site_name)

\* "{}/{}".format(url, command)
FullUrl(v, command) == SiteUrl(v) \o "/" \o command

\* The folder a put uploads into: '/sites/{}/{}' of line 302.
PutFolderUrl(v) == "/sites/" \o Fmt(v.site_name) \o "/" \o Fmt(v.remote_file_path)

PutCommand(v) ==
    "_api/web/GetFolderByServerRelativeURL('" \o PutFolderUrl(v)
    \o "')/Files/add(url='" \o Fmt(v.remote_file_name) \o "',overwrite=true)"

FileUrlBug(v) ==
    "/sites/" \o Fmt(v.site_name) \o "/" \o Fmt(v.remote_file_path)
    \o "/" \o Fmt(v.local_file_name)

\* The file get, metadata and delete address: '/sites/{}/{}/{}' of lines 333
\* and 372.
FileUrl(v) ==
    "/sites/" \o Fmt(v.site_name) \o "/" \o Fmt(v.remote_file_path)
    \o "/" \o Fmt(v.remote_file_name)

ODATA_SELECTORS == [get |-> "$value", metadata |-> "ListItemAllFields"]

GetCommand(v) ==
    "/_api/web/GetFileByServerRelativeUrl('" \o FileUrl(v) \o "')/"
    \o ODATA_SELECTORS[v.method]

DeleteCommand(v) ==
    "/_api/web/GetFileByServerRelativeUrl('" \o FileUrl(v) \o "')"

ListKindsBug == <<"files">>

\* The values the loop of line 396 runs through.
ListKinds == <<"files", "folders">>

ListCommand(v, kind) ==
    "/_api/web/GetFolderByServerRelativeUrl('" \o Fmt(v.remote_file_path)
    \o "')/" \o kind

MkdirCommand == "/_api/web/folders"

\* data of lines 435-439.
MkdirData(v) ==
    [__metadata |-> [type |-> "SP.Folder"],
     ServerRelativeUrl |-> "/sites/" \o Fmt(v.site_name) \o Fmt(v.remote_file_path)]

\* The folder rmdir addresses: '/sites/{}/{}' of line 463.
RmdirFolderUrl(v) ==
    "/sites/" \o Fmt(v.site_name) \o "/" \o Fmt(v.remote_file_path)

RmdirCommand(v) ==
    "/_api/web/GetFolderByServerRelativeUrl('" \o RmdirFolderUrl(v) \o "')"

\* ------------------------------------------------------------ headers

\* headers of lines 287-291.
BaseHeaders(token) ==
    ("Authorization" :> ("Bearer " \o token))
    @@ ("Content-Type" :> "application/json;odata=verbose")
    @@ ("Accept" :> "application/json;odata=verbose")

OpHeadersBug(method, h) ==
    IF method \in {"delete", "rmdir", "get"}
    THEN DictSet(h, "X-HTTP-Method", "DELETE")
    ELSE IF method = "list"
         THEN DictSet(h, "Accept", "application/json;odata=nometadata")
         ELSE h

\* The headers dict as the branch of `method` leaves it before its request:
\* lines 369 and 460 add the method override, line 392 replaces Accept, the
\* other branches send the dict unchanged.
OpHeaders(method, h) ==
    IF method \in {"delete", "rmdir"}
    THEN DictSet(h, "X-HTTP-Method", "DELETE")
    ELSE IF method = "list"
         THEN DictSet(h, "Accept", "application/json;odata=nometadata")
         ELSE h

\* ------------------------------------------------------------ results

NoOutcome == [kind |-> "none"]

\* An exception no handler of main() catches: the process dies with a
\* traceback and neither exit_json nor fail_json is called.
Raised(type) == [kind |-> "exception", type |-> type]

AuthFailMsg(resp) ==
    "The OAuth 2.0 authorization failed (code: " \o CodeStr(resp.status_code) \o ")"

AuthFailBug(resp) ==
    [kind |-> "fail_json", msg |-> AuthFailMsg(resp), response |-> ""]

\* module.fail_json of lines 484-489.
AuthFail(resp) ==
    [kind |-> "fail_json", msg |-> AuthFailMsg(resp), response |-> resp.text]

FileMissingBug(fullpath) ==
    [kind |-> "fail_json", msg |-> "The file is missing."]

\* module.fail_json of lines 326-328 and 357-359.
FileMissing(fullpath) ==
    [kind |-> "fail_json", msg |-> "The file " \o fullpath \o " is missing."]

\* module.fail_json of lines 318-323, 361-366 and 384-389.
OpFail(resp) ==
    [kind |-> "fail_json", msg |-> "Something went wrong...",
     response |-> resp.json, code |-> resp.status_code]

\* module.fail_json of lines 417-422.
ListFail(resp, command) ==
    [kind |-> "fail_json", msg |-> "Something went wrong...",
     response |-> resp.json, code |-> resp.status_code, command |-> command]

\* module.fail_json of lines 451-457 and 475-481: data=data reads the local
\* variable `data`, which raises UnboundLocalError when no statement of this
\* run has assigned it.
DataFail(resp, d) ==
    IF d.bound
    THEN [kind |-> "fail_json", msg |-> "Something went wrong...",
          response |-> resp.json, data |-> d.value, code |-> resp.status_code]
    ELSE Raised("UnboundLocalError")

\* module.exit_json of lines 346-349, 378-382, 445-449 and 469-473.
ExitCode(resp) ==
    [kind |-> "exit_json", changed |-> TRUE, code |-> resp.status_code]

\* module.exit_json of lines 311-316.
ExitPut(resp) ==
    [kind |-> "exit_json", changed |-> TRUE, response |-> resp.json,
     code |-> resp.status_code]

\* module.exit_json of lines 351-355.
ExitMetadata(resp) ==
    [kind |-> "exit_json", changed |-> TRUE, code |-> resp.status_code,
     metadata |-> resp.content]

\* module.exit_json of lines 424-429.
ExitList(resp, command, listing) ==
    [kind |-> "exit_json", changed |-> TRUE, code |-> resp.status_code,
     command |-> command, listing |-> listing]

\* The dict line 406 appends for one element k of response.json()["value"].
ListEntry(kind, k) ==
    [Kind |-> kind,
     Name |-> k.Name,
     ServerRelativeUrl |-> k.ServerRelativeUrl,
     TimeCreated |-> k.TimeCreated,
     TimeLastModified |-> k.TimeLastModified]

ListEntriesBug(kind, value) == [i \in 1..Len(value) |-> ListEntry(kind, value[Len(value) + 1 - i])]

\* The dicts the loop of lines 405-414 appends, in the order of the array.
ListEntries(kind, value) == [i \in 1..Len(value) |-> ListEntry(kind, value[i])]

\* ------------------------------------------------------------ environment

\* What the token endpoint may answer.
TokenResponses ==
    {[status_code |-> 200, text |-> "{\"access_token\": \"tok\"}",
      json |-> ("access_token" :> "tok")],
     [status_code |-> 200, text |-> "{\"token_type\": \"Bearer\"}",
      json |-> ("token_type" :> "Bearer")],
     [status_code |-> 401, text |-> "{\"error\": \"invalid_client\"}",
      json |-> ("error" :> "invalid_client")],
     [status_code |-> 404, text |-> "{\"error\": \"unknown tenant\"}",
      json |-> ("error" :> "unknown tenant")]}

\* An operation endpoint's answer to a request it refuses.
ErrorResponse(code) ==
    [status_code |-> code, json |-> ("error" :> CodeStr(code)), content |-> "error"]

\* An operation endpoint's answer to a request it carries out.
OkResponse(code, json, content) ==
    [status_code |-> code, json |-> json, content |-> content]

\* The remote store's key of the file Files/add(url=name) creates in a folder.
StoreKey(folder, name) == folder \o "/" \o name

\* One element of a files / folders array; the server sends more fields
\* than the module reads.
ServerEntries ==
    [Name : EntryNames, ServerRelativeUrl : {"/sites/Ops/Docs"},
     TimeCreated : {"2022-01-01T00:00:00Z"},
     TimeLastModified : {"2022-01-02T00:00:00Z"},
     UniqueId : {"id"}]

\* The arrays a files / folders call may return.
ServerListings == UNION {[1..n -> ServerEntries] : n \in 0..MaxEntries}

\* The files of the existing local directories a run may find.
LocalFiles == {PathJoin(d, n) : d \in ExistingDirs, n \in FileNames}

\* ------------------------------------------------------------ state

VARIABLES
    pc,         \* where the process is: idle, token, authenticated, op, done
    params,     \* module.params of the current run
    locals,     \* the parameter variables of main() (lines 246-266)
    headers,    \* the headers dict
    data,       \* the local variable data: [bound, value]
    result,     \* the list branch's result list
    kind,       \* the list branch's loop position in ListKinds
    requests,   \* the HTTP requests the current run has issued, in order
    responses,  \* the HTTP responses the current run has received, in order
    outcome,    \* how the current run ended: exit_json, fail_json, exception
    localFS,    \* the local files: full path -> bytes
    remote,     \* the remote store: server-relative file URL -> folder, bytes
    prev        \* what the previous run uploaded, when it was a successful put

vars ==
    <<pc, params, locals, headers, data, result, kind, requests, responses,
      outcome, localFS, remote, prev>>

NoPut == [put |-> FALSE]

\* The previous run, as the next run's history.
Summary ==
    IF pc = "done" /\ locals.method = "put" /\ outcome.kind = "exit_json"
    THEN [put |-> TRUE,
          site_name |-> locals.site_name,
          remote_file_path |-> locals.remote_file_path,
          remote_file_name |-> locals.remote_file_name,
          bytes |-> requests[Len(requests)].data]
    ELSE NoPut

Init ==
    /\ pc = "idle"
    /\ params = [method |-> None]
    /\ locals = [method |-> None]
    /\ headers = EmptyDict
    /\ data = [bound |-> FALSE]
    /\ result = <<>>
    /\ kind = 0
    /\ requests = <<>>
    /\ responses = <<>>
    /\ outcome = NoOutcome
    /\ localFS \in UNION {[S -> Contents] : S \in SUBSET LocalFiles}
    /\ remote = EmptyDict
    /\ prev = NoPut

\* The process ends: exit_json, fail_json or an uncaught exception.
End(o) ==
    /\ outcome' = o
    /\ pc' = "done"

\* requests.get / requests.post: the request leaves with the headers dict
\* as it is now.
Send(verb, url, h, body) ==
    /\ requests' = Append(requests,
                          [endpoint |-> "op", verb |-> verb, url |-> url,
                           headers |-> h, data |-> body])
    /\ pc' = "op"

\* ------------------------------------------------------------ main()

\* Lines 243-281: a new process reads its parameters and asks for a token.
Main(p) ==
    /\ pc = "idle"
    /\ params' = p
    /\ locals' = Extract(p)
    /\ requests' = <<TokenRequest(Extract(p))>>
    /\ pc' = "token"
    /\ UNCHANGED <<headers, data, result, kind, responses, outcome, localFS,
                   remote, prev>>

\* The process is gone, and its variables with it: the files it wrote and
\* the remote store remain.
Exit ==
    /\ pc = "done"
    /\ prev' = Summary
    /\ pc' = "idle"
    /\ params' = [method |-> None]
    /\ locals' = [method |-> None]
    /\ headers' = EmptyDict
    /\ data' = [bound |-> FALSE]
    /\ result' = <<>>
    /\ kind' = 0
    /\ requests' = <<>>
    /\ responses' = <<>>
    /\ outcome' = NoOutcome
    /\ UNCHANGED <<localFS, remote>>

\* Lines 283, 483-489: the token request failed.
TokenFailed(resp) ==
    /\ pc = "token"
    /\ ~Ok(resp)
    /\ responses' = Append(responses, resp)
    /\ End(AuthFail(resp))
    /\ UNCHANGED <<params, locals, headers, data, result, kind, requests,
                   localFS, remote, prev>>

\* Lines 283-284: json.loads(response_token.text)["access_token"] raises
\* KeyError on a body without the field.
TokenMalformed(resp) ==
    /\ pc = "token"
    /\ Ok(resp)
    /\ "access_token" \notin DOMAIN resp.json
    /\ responses' = Append(responses, resp)
    /\ End(Raised("KeyError"))
    /\ UNCHANGED <<params, locals, headers, data, result, kind, requests,
                   localFS, remote, prev>>

\* Lines 283-291: the token is read and the headers are built.
Authenticated(resp) ==
    /\ pc = "token"
    /\ Ok(resp)
    /\ "access_token" \in DOMAIN resp.json
    /\ responses' = Append(responses, resp)
    /\ headers' = BaseHeaders(resp.json["access_token"])
    /\ pc' = "authenticated"
    /\ UNCHANGED <<params, locals, data, result, kind, requests, outcome,
                   localFS, remote, prev>>

\* ------------------------------------------------------------ put

\* Lines 293-308 and 325-328: the source file is opened and posted.
\* os.path.join raises TypeError on a None name, before the try.
Put ==
    /\ pc = "authenticated"
    /\ locals.method = "put"
    /\ headers' = OpHeaders(locals.method, headers)
    /\ IF locals.local_file_name = None
       THEN End(Raised("TypeError")) /\ UNCHANGED requests
       ELSE LET local_file_fullpath ==
                    PathJoin(locals.local_file_path, locals.local_file_name)
            IN  IF local_file_fullpath \notin DOMAIN localFS
                THEN End(FileMissing(local_file_fullpath)) /\ UNCHANGED requests
                ELSE /\ Send("POST", FullUrl(locals, PutCommand(locals)),
                             headers', localFS[local_file_fullpath])
                     /\ UNCHANGED outcome
    /\ UNCHANGED <<params, locals, data, result, kind, responses, localFS,
                   remote, prev>>

\* The store's answers to Files/add: the upload is stored, or refused.
PutResponses ==
    {OkResponse(200, ("Name" :> Fmt(locals.remote_file_name)), "")}
    \cup {ErrorResponse(c) : c \in {401, 404}}

\* Lines 310-323.
PutResponse(resp) ==
    /\ pc = "op"
    /\ locals.method = "put"
    /\ responses' = Append(responses, resp)
    /\ IF Ok(resp)
       THEN /\ remote' = DictSet(remote,
                                 StoreKey(PutFolderUrl(locals),
                                          Fmt(locals.remote_file_name)),
                                 [folder |-> PutFolderUrl(locals),
                                  content |-> requests[Len(requests)].data])
            /\ End(ExitPut(resp))
       ELSE /\ End(OpFail(resp))
            /\ UNCHANGED remote
    /\ UNCHANGED <<params, locals, headers, data, result, kind, requests,
                   localFS, prev>>

\* ------------------------------------------------------------ get, metadata

\* Lines 330-337.
Get ==
    /\ pc = "authenticated"
    /\ locals.method \in {"get", "metadata"}
    /\ headers' = OpHeaders(locals.method, headers)
    /\ Send("GET", FullUrl(locals, GetCommand(locals)), headers', None)
    /\ UNCHANGED <<params, locals, data, result, kind, responses, outcome,
                   localFS, remote, prev>>

\* The store's answers to a read of the file at url: its bytes (or its
\* list item), not found, or refused.
GetResponses(url) ==
    (IF url \in DOMAIN remote
     THEN {OkResponse(200, EmptyDict,
                      IF locals.method = "get" THEN remote[url].content
                      ELSE "ListItemAllFields")}
     ELSE {ErrorResponse(404)})
    \cup {ErrorResponse(401)}

\* Lines 338-366: the bytes are written to the local file; open() raises
\* FileNotFoundError when the directory does not exist, os.path.join raises
\* TypeError, which the try does not catch, on a None name.
GetResponse(resp) ==
    /\ pc = "op"
    /\ locals.method \in {"get", "metadata"}
    /\ responses' = Append(responses, resp)
    /\ IF ~Ok(resp)
       THEN End(OpFail(resp)) /\ UNCHANGED localFS
       ELSE IF locals.method = "metadata"
       THEN End(ExitMetadata(resp)) /\ UNCHANGED localFS
       ELSE IF locals.local_file_name = None
       THEN End(Raised("TypeError")) /\ UNCHANGED localFS
       ELSE LET local_file_fullpath ==
                    PathJoin(locals.local_file_path, locals.local_file_name)
            IN  IF locals.local_file_path \notin ExistingDirs
                THEN End(FileMissing(local_file_fullpath)) /\ UNCHANGED localFS
                ELSE /\ localFS' = DictSet(localFS, local_file_fullpath,
                                           resp.content)
                     /\ End(ExitCode(resp))
    /\ UNCHANGED <<params, locals, headers, data, result, kind, requests,
                   remote, prev>>

\* ------------------------------------------------------------ delete

\* Lines 368-376.
Delete ==
    /\ pc = "authenticated"
    /\ locals.method = "delete"
    /\ headers' = OpHeaders(locals.method, headers)
    /\ Send("POST", FullUrl(locals, DeleteCommand(locals)), headers', None)
    /\ UNCHANGED <<params, locals, data, result, kind, responses, outcome,
                   localFS, remote, prev>>

\* The store's answers to the removal of the file at url.
DeleteResponses(url) ==
    (IF url \in DOMAIN remote
     THEN {OkResponse(200, EmptyDict, "")}
     ELSE {ErrorResponse(404)})
    \cup {ErrorResponse(401)}

\* Lines 377-389.
DeleteResponse(resp) ==
    /\ pc = "op"
    /\ locals.method = "delete"
    /\ responses' = Append(responses, resp)
    /\ IF Ok(resp)
       THEN End(ExitCode(resp)) /\ remote' = DictDel(remote, FileUrl(locals))
       ELSE End(OpFail(resp)) /\ UNCHANGED remote
    /\ UNCHANGED <<params, locals, headers, data, result, kind, requests,
                   localFS, prev>>

\* ------------------------------------------------------------ list

\* Lines 391-403, first pass of the loop.
List ==
    /\ pc = "authenticated"
    /\ locals.method = "list"
    /\ headers' = OpHeaders(locals.method, headers)
    /\ result' = <<>>
    /\ kind' = 1
    /\ Send("GET", FullUrl(locals, ListCommand(locals, ListKinds[1])),
            headers', None)
    /\ UNCHANGED <<params, locals, data, responses, outcome, localFS, remote,
                   prev>>

\* The server's answers to a files / folders call.
ListResponses ==
    {OkResponse(200, [value |-> l], "") : l \in ServerListings}
    \cup {ErrorResponse(c) : c \in {401, 404}}

\* Lines 404-429: the entries are appended and the loop goes on to its next
\* call, or, after the last one, exit_json returns the listing.
ListResponse(resp) ==
    /\ pc = "op"
    /\ locals.method = "list"
    /\ responses' = Append(responses, resp)
    /\ IF ~Ok(resp)
       THEN /\ End(ListFail(resp, ListCommand(locals, ListKinds[kind])))
            /\ UNCHANGED <<result, kind, requests>>
       ELSE /\ result' = result \o ListEntries(ListKinds[kind], resp.json.value)
            /\ IF kind < Len(ListKinds)
               THEN /\ kind' = kind + 1
                    /\ Send("GET",
                            FullUrl(locals, ListCommand(locals, ListKinds[kind'])),
                            headers, None)
                    /\ UNCHANGED outcome
               ELSE /\ End(ExitList(resp, ListCommand(locals, ListKinds[kind]),
                                    result'))
                    /\ UNCHANGED <<kind, requests>>
    /\ UNCHANGED <<params, locals, headers, data, localFS, remote, prev>>

\* ------------------------------------------------------------ mkdir

\* Lines 431-443.
Mkdir ==
    /\ pc = "authenticated"
    /\ locals.method = "mkdir"
    /\ headers' = OpHeaders(locals.method, headers)
    /\ data' = [bound |-> TRUE, value |-> MkdirData(locals)]
    /\ Send("POST", FullUrl(locals, MkdirCommand), headers', data'.value)
    /\ UNCHANGED <<params, locals, result, kind, responses, outcome, localFS,
                   remote, prev>>

\* The server's answers to a folder creation or removal.
FolderResponses(code) ==
    {OkResponse(code, EmptyDict, "")} \cup {ErrorResponse(c) : c \in {401, 404}}

\* Lines 444-457.
MkdirResponse(resp) ==
    /\ pc = "op"
    /\ locals.method = "mkdir"
    /\ responses' = Append(responses, resp)
    /\ End(IF Ok(resp) THEN ExitCode(resp) ELSE DataFail(resp, data))
    /\ UNCHANGED <<params, locals, headers, data, result, kind, requests,
                   localFS, remote, prev>>

\* ------------------------------------------------------------ rmdir

\* Lines 459-467.
Rmdir ==
    /\ pc = "authenticated"
    /\ locals.method = "rmdir"
    /\ headers' = OpHeaders(locals.method, headers)
    /\ Send("POST", FullUrl(locals, RmdirCommand(locals)), headers', None)
    /\ UNCHANGED <<params, locals, data, result, kind, responses, outcome,
                   localFS, remote, prev>>

\* The remote store without the files of a folder.
WithoutFolder(store, folder) ==
    [u \in {x \in DOMAIN store : store[x].folder # folder} |-> store[u]]

\* Lines 468-481.
RmdirResponse(resp) ==
    /\ pc = "op"
    /\ locals.method = "rmdir"
    /\ responses' = Append(responses, resp)
    /\ End(IF Ok(resp) THEN ExitCode(resp) ELSE DataFail(resp, data))
    /\ remote' = IF Ok(resp) THEN WithoutFolder(remote, RmdirFolderUrl(locals))
                 ELSE remote
    /\ UNCHANGED <<params, locals, headers, data, result, kind, requests,
                   localFS, prev>>

\* ------------------------------------------------------------ specification

Next ==
    \/ \E p \in ParamSpace : Main(p)
    \/ Exit
    \/ \E resp \in TokenResponses : TokenFailed(resp)
    \/ \E resp \in TokenResponses : TokenMalformed(resp)
    \/ \E resp \in TokenResponses : Authenticated(resp)
    \/ Put
    \/ pc = "op" /\ \E resp \in PutResponses : PutResponse(resp)
    \/ Get
    \/ pc = "op" /\ \E resp \in GetResponses(FileUrl(locals)) : GetResponse(resp)
    \/ Delete
    \/ pc = "op" /\ \E resp \in DeleteResponses(FileUrl(locals)) : DeleteResponse(resp)
    \/ List
    \/ \E resp \in ListResponses : ListResponse(resp)
    \/ Mkdir
    \/ \E resp \in FolderResponses(201) : MkdirResponse(resp)
    \/ Rmdir
    \/ \E resp \in FolderResponses(200) : RmdirResponse(resp)

Spec == Init /\ [][Next]_vars

\* ------------------------------------------------------------ properties

\* The requests of the current run to an operation endpoint, in order.
OpRequests == SelectSeq(requests, LAMBDA r : r.endpoint = "op")

\* The requests of the current run to the token endpoint.
TokenRequests == SelectSeq(requests, LAMBDA r : r.endpoint = "token")

\* The token endpoint has answered, and not with a 2xx status.
TokenRefused == pc # "idle" /\ Len(responses) >= 1 /\ ~Ok(responses[1])

\* The token endpoint has answered 2xx with a body that carries the token.
TokenObtained ==
    /\ pc # "idle"
    /\ Len(responses) >= 1
    /\ Ok(responses[1])
    /\ "access_token" \in DOMAIN responses[1].json

\* The token endpoint has answered 2xx with a body without access_token.
TokenMissing ==
    /\ pc # "idle"
    /\ Len(responses) >= 1
    /\ Ok(responses[1])
    /\ "access_token" \notin DOMAIN responses[1].json

\* The run's branch has run up to its first request or its early end.
Dispatched == pc \in {"op", "done"} /\ TokenObtained

\* C1: a non-2xx token response ends the run with the authentication
\* failure, which carries the response's status code and raw body, and the
\* run has issued no request but the token request.
C1_TokenRefusedFails ==
    TokenRefused =>
        /\ pc = "done"
        /\ outcome.kind = "fail_json"
        /\ outcome.msg = "The OAuth 2.0 authorization failed (code: "
                         \o CodeStr(responses[1].status_code) \o ")"
        /\ outcome.response = responses[1].text
        /\ Len(OpRequests) = 0
        /\ Len(requests) = 1

C1_Witness ==
    /\ TokenRefused
    /\ locals.method = "list"
    /\ responses[1].status_code = 401
    /\ outcome.kind = "fail_json"

\* C2: an authenticated put whose source file does not exist ends with the
\* failure that names the joined path, and posts nothing to Files/add.
C2_PutMissingFile ==
    (/\ Dispatched
     /\ locals.method = "put"
     /\ locals.local_file_name # None
     /\ (locals.local_file_path \o "/" \o locals.local_file_name)
            \notin DOMAIN localFS)
    =>  /\ pc = "done"
        /\ outcome.kind = "fail_json"
        /\ outcome.msg = "The file " \o locals.local_file_path \o "/"
                         \o locals.local_file_name \o " is missing."
        /\ Len(OpRequests) = 0

C2_Witness ==
    /\ Dispatched
    /\ locals.method = "put"
    /\ outcome.kind = "fail_json"
    /\ outcome.msg = "The file /tmp/a.txt is missing."
    /\ Len(requests) = 1

\* The entries a listing must hold for one array of the server, in order.
Expected(k, value) ==
    [i \in 1..Len(value) |->
        [Kind |-> k, Name |-> value[i].Name,
         ServerRelativeUrl |-> value[i].ServerRelativeUrl,
         TimeCreated |-> value[i].TimeCreated,
         TimeLastModified |-> value[i].TimeLastModified]]

\* C3: a list run issues the files GET, then the folders GET, and no third
\* request; the folders GET is issued only after the files call succeeded;
\* two successes return the file entries followed by the folder entries,
\* each in the server's order; a failed call ends the run in failure with
\* no listing.
C3_ListOrderAndAbort ==
    (Dispatched /\ locals.method = "list") =>
        LET ops == OpRequests
            site == "https://" \o locals.tenant_name \o ".sharepoint.com/sites/"
                    \o locals.site_name
            call(k) == site \o "//_api/web/GetFolderByServerRelativeUrl('"
                       \o locals.remote_file_path \o "')/" \o k
        IN  /\ Len(ops) \in {1, 2}
            /\ \A i \in 1..Len(ops) : ops[i].verb = "GET"
            /\ ops[1].url = call("files")
            /\ Len(ops) = 2 =>
                   /\ ops[2].url = call("folders")
                   /\ Len(responses) >= 2 /\ Ok(responses[2])
            /\ (pc = "done" /\ Len(responses) = 3 /\ Ok(responses[3])) =>
                   /\ outcome.kind = "exit_json"
                   /\ outcome.listing =
                          Expected("files", responses[2].json.value)
                          \o Expected("folders", responses[3].json.value)
            /\ (pc = "done" /\ ~Ok(responses[Len(responses)])) =>
                   /\ outcome.kind = "fail_json"
                   /\ "listing" \notin DOMAIN outcome
            /\ (pc = "done" /\ ~Ok(responses[2])) => Len(ops) = 1

C3_Witness ==
    /\ pc = "done"
    /\ locals.method = "list"
    /\ outcome.kind = "exit_json"
    /\ Len(outcome.listing) = 3
    /\ outcome.listing[1].Name = "n1" /\ outcome.listing[1].Kind = "files"
    /\ outcome.listing[2].Name = "n2" /\ outcome.listing[2].Kind = "files"
    /\ outcome.listing[3].Name = "n1" /\ outcome.listing[3].Kind = "folders"

\* Every response the current run has received was 2xx.
AllOk == \A i \in 1..Len(responses) : Ok(responses[i])

\* C4: a finished run has produced exactly one result, Success or Failure;
\* nothing is requested after a failed response and no request is repeated;
\* Success is produced only when every response of the run was 2xx.
C4_OneTerminalResult ==
    /\ pc = "done" => outcome.kind \in {"exit_json", "fail_json"}
    /\ pc \in {"token", "authenticated", "op"} => outcome.kind = "none"
    /\ (pc # "idle" /\ ~AllOk) => pc = "done" /\ ~Ok(responses[Len(responses)])
    /\ \A i, j \in 1..Len(requests) : requests[i].url = requests[j].url => i = j
    /\ outcome.kind = "exit_json" => AllOk

\* The operation requests an authenticated, finished run has issued.
OpCount == Len(OpRequests)

\* C5 as stated, for the runs that end in a result: one token request per
\* run, and after a successful authentication two operation requests for
\* list and one for every other kind.
C5_RoundTripsAsStated ==
    (pc = "done" /\ outcome.kind \in {"exit_json", "fail_json"}) =>
        /\ Len(TokenRequests) = 1
        /\ TokenObtained =>
               OpCount = IF locals.method = "list" THEN 2 ELSE 1

\* The put of the current run could not open its source file.
PutSourceUnreadable ==
    \/ locals.local_file_name = None
    \/ (locals.local_file_path \o "/" \o locals.local_file_name)
           \notin DOMAIN localFS

\* C5, amended: one token request per run; after a successful
\* authentication a list issues two operation requests, or one when its
\* files call failed; a put issues one, or none when its source file cannot
\* be opened; every other kind issues one.
C5_RoundTrips ==
    /\ pc # "idle" => Len(TokenRequests) = 1 /\ requests[1].endpoint = "token"
    /\ (pc = "done" /\ TokenObtained) =>
           OpCount = CASE locals.method = "list" ->
                              IF Ok(responses[2]) THEN 2 ELSE 1
                       [] locals.method = "put" ->
                              IF PutSourceUnreadable THEN 0 ELSE 1
                       [] OTHER -> 1
    /\ (pc = "done" /\ ~TokenObtained) => OpCount = 0

C5_Witness ==
    /\ pc = "done"
    /\ TokenObtained
    /\ locals.method = "list"
    /\ OpCount = 1
    /\ outcome.kind = "fail_json"

\* C6: a 2xx token response without access_token ends the run with a
\* reported authentication failure, and no operation request is issued.
C6_MissingTokenFails ==
    (pc = "done" /\ TokenMissing) =>
        /\ outcome.kind = "fail_json"
        /\ OpCount = 0

\* C7: a refused rmdir ends the run with the failure that carries the
\* response's status code and body.
C7_RmdirFailure ==
    (/\ pc = "done"
     /\ TokenObtained
     /\ locals.method = "rmdir"
     /\ Len(responses) = 2
     /\ ~Ok(responses[2]))
    =>  /\ outcome.kind = "fail_json"
        /\ outcome.code = responses[2].status_code
        /\ outcome.response = responses[2].json

\* C8: the operation requests of delete and rmdir are POSTs that carry
\* X-HTTP-Method: DELETE; no request of another kind, and no token request,
\* carries the header, whatever earlier runs have sent.
C8_MethodOverride ==
    /\ \A i \in 1..Len(requests) :
           LET r == requests[i]
           IN  IF r.endpoint = "op" /\ locals.method \in {"delete", "rmdir"}
               THEN /\ r.verb = "POST"
                    /\ "X-HTTP-Method" \in DOMAIN r.headers
                    /\ r.headers["X-HTTP-Method"] = "DELETE"
               ELSE "X-HTTP-Method" \notin DOMAIN r.headers
    /\ (pc # "idle" /\ locals.method \notin {"delete", "rmdir"}) =>
           "X-HTTP-Method" \notin DOMAIN headers

C8_Witness ==
    /\ pc = "done"
    /\ locals.method = "rmdir"
    /\ Len(requests) = 2
    /\ requests[2].verb = "POST"
    /\ requests[2].headers["X-HTTP-Method"] = "DELETE"
    /\ outcome.kind = "exit_json"

\* C9: a successful get right after a successful put of the same site,
\* remote path and remote name writes the bytes the put uploaded.
C9_PutGetRoundTrip ==
    (/\ pc = "done"
     /\ locals.method = "get"
     /\ outcome.kind = "exit_json"
     /\ prev.put
     /\ prev.site_name = locals.site_name
     /\ prev.remote_file_path = locals.remote_file_path
     /\ prev.remote_file_name = locals.remote_file_name)
    =>  LET written == locals.local_file_path \o "/" \o locals.local_file_name
        IN  /\ written \in DOMAIN localFS
            /\ localFS[written] = prev.bytes

C9_Witness ==
    /\ pc = "done"
    /\ locals.method = "get"
    /\ outcome.kind = "exit_json"
    /\ prev.put
    /\ prev.remote_file_name = "b.txt"
    /\ params.remote_file_name = "b.txt"
    /\ params.local_file_name = "a.txt"
    /\ prev.bytes = "y"
    /\ localFS["/tmp/a.txt"] = "y"

\* C10: a put without remote_file_name uploads under local_file_name and a
\* get without local_file_name writes the file remote_file_name; a given
\* name is used as given; no other kind has a name defaulted.
C10_NameDefaulting ==
    LET site == "https://" \o TenantName \o ".sharepoint.com/sites/" \o SiteName
        given(n, other) == IF n = None THEN other ELSE n
    IN  /\ (pc \in {"op", "done"} /\ locals.method = "put" /\ OpCount = 1) =>
               /\ OpRequests[1].url =
                      site \o "/_api/web/GetFolderByServerRelativeURL('/sites/"
                      \o SiteName \o "/" \o RemotePath \o "')/Files/add(url='"
                      \o given(params.remote_file_name, params.local_file_name)
                      \o "',overwrite=true)"
               /\ OpRequests[1].data =
                      localFS[params.local_file_path \o "/"
                              \o params.local_file_name]
        /\ (pc = "done" /\ locals.method = "get"
            /\ outcome.kind = "exit_json") =>
               LET name == given(params.local_file_name,
                                 params.remote_file_name)
                   written == params.local_file_path \o "/" \o name
               IN  /\ name # None
                   /\ written \in DOMAIN localFS
                   /\ localFS[written] = responses[2].content
        /\ (pc # "idle" /\ locals.method # "get") =>
               locals.local_file_name = params.local_file_name
        /\ (pc # "idle" /\ locals.method # "put") =>
               locals.remote_file_name = params.remote_file_name
        /\ (pc \in {"op", "done"} /\ OpCount = 1
            /\ locals.method \in {"metadata", "delete"}) =>
               OpRequests[1].url =
                   site \o "//_api/web/GetFileByServerRelativeUrl('/sites/"
                   \o SiteName \o "/" \o RemotePath \o "/"
                   \o (IF params.remote_file_name = None THEN "None"
                       ELSE params.remote_file_name)
                   \o (IF locals.method = "metadata"
                       THEN "')/ListItemAllFields" ELSE "')")

C10_Witness ==
    /\ pc = "done"
    /\ locals.method = "put"
    /\ params.remote_file_name = None
    /\ params.local_file_name = "a.txt"
    /\ OpCount = 1
    /\ outcome.kind = "exit_json"
    /\ "/sites/Ops/Docs/a.txt" \in DOMAIN remote

====
